---- MODULE Spec2Model ----
(***************************************************************************)
(* Model of the Sendspin Cast receiver (src/unnamed/part_000, lines 1-616, *)
(* the current revision of main.ts): the module-level state, the bounded   *)
(* probe for the Cast framework, the custom-message (config) listener,     *)
(* connectToServer with its suspended continuation after `await connect()`,*)
(* the state-change callback of each constructed SendspinPlayer, the two   *)
(* intervals and the system-volume listener.                               *)
(*                                                                         *)
(* JavaScript runs each handler to completion, so every handler is one     *)
(* action.  connectToServer is async: its synchronous prefix (up to the    *)
(* await) is part of the handler that calls it, and its continuation is    *)
(* the action ConnectResolved / ConnectRejected of the client it awaits.   *)
(*                                                                         *)
(* Optional values are sequences of length <= 1: None is undefined/null,   *)
(* Some(x) a present value.  `effects` lists, in call order, the calls the *)
(* last handler made on its collaborators (channel, clients, timers, UI).  *)
(***************************************************************************)
EXTENDS Integers, Sequences, FiniteSets, TLC

\* ---------------------------------------------------------------- bounds
\* Number of SendspinPlayer instances constructed in one run.
MaxClients == 2

\* The same where the merging of message fields is explored.
MaxMergeClients == 1

\* ------------------------------------------------------- program constants
MAX_INIT_RETRIES == 40
RETRY_DELAY_MS == 250
STATUS_INTERVAL_MS == 1000
PROGRESS_INTERVAL_MS == 200
KNOWN_CODECS == {"pcm", "flac", "opus"}
DEFAULT_CODECS == <<"pcm">>
DEFAULT_CLIENT_NAME == "Music Assistant Cast Receiver"

\* ------------------------------------------------------------ value model
None == <<>>
Some(x) == <<x>>
IsSome(o) == o # None
Get(o) == o[1]

\* JS truthiness of an optional string: undefined, null and "" are falsy.
TruthyStr(o) == IsSome(o) /\ Get(o) # ""

\* a ?? b on optionals
Coalesce(a, b) == IF IsSome(a) THEN a ELSE b

\* ----------------------------------------------------------- input domains
\* JSON values of a message's syncDelay (a number or not) and codecs (an
\* array of strings or not).
Num(n) == [isNumber |-> TRUE, val |-> n]
NotNum == [isNumber |-> FALSE, val |-> 0]
Arr(s) == [isArray |-> TRUE, items |-> s]
NotArr == [isArray |-> FALSE, items |-> <<>>]

FlacOpus == <<"flac", "opus">>
OpusFlac == <<"opus", "flac">>

\* serverUrl of a message: absent, the empty string, or one of two servers.
UrlInputs == {None, Some(""), Some("A"), Some("B")}

Msg(url, id, name, delay, codecs) ==
    [ serverUrl |-> url, playerId |-> id, playerName |-> name,
      syncDelay |-> delay, codecs |-> codecs ]

\* The data objects of the inbound messages the reconciliation is explored
\* with: every combination of a server URL and a codec list.
ReconcileMessages ==
    { Msg(url, None, None, None, codecs) :
        url \in UrlInputs,
        codecs \in {None, Some(Arr(FlacOpus)), Some(Arr(OpusFlac))} }

\* The messages the sync delay is explored with: every combination of a
\* server URL, a sync delay and a codec list.
SyncMessages ==
    { Msg(url, None, None, delay, codecs) :
        url \in {None, Some(""), Some("A")},
        delay \in {None, Some(Num(0)), Some(Num(50)), Some(NotNum)},
        codecs \in {None, Some(Arr(FlacOpus))} }

\* The messages the telemetry is explored with: a server URL, a codec list
\* or both.
TelemetryMessages ==
    { Msg(url, None, None, None, codecs) :
        url \in {None, Some("A"), Some("B")},
        codecs \in {None, Some(Arr(FlacOpus))} }

\* The messages a failed connect is followed with: a server URL, a codec
\* list, a sync delay alone and a player name alone.
RetryMessages ==
    { Msg(Some("A"), None, None, None, None),
      Msg(None, None, None, None, Some(Arr(FlacOpus))),
      Msg(None, None, None, Some(Num(50)), None),
      Msg(None, None, Some("Kitchen"), None, None) }

\* A codec list with a value that is no known codec.
FlacMp3 == <<"flac", "mp3">>

\* The messages the merging of fields is explored with: a player id, a
\* player name or a sync delay alone, present, empty or of the wrong type;
\* codec lists, valid or not, with and without a server URL; and messages
\* whose codec list is invalid while every other field is present, which
\* alone carry the sync delay 25 and the server "B".
MergeMessages ==
    { Msg(None, id, None, None, None) :
        id \in {Some(""), Some("p1"), Some("p2")} }
    \cup
    { Msg(None, None, name, None, None) :
        name \in {Some(""), Some("Kitchen")} }
    \cup
    { Msg(None, None, None, delay, None) :
        delay \in {Some(Num(50)), Some(NotNum)} }
    \cup
    { Msg(url, None, None, None, codecs) :
        url \in {None, Some("A")},
        codecs \in {None, Some(Arr(FlacOpus)), Some(Arr(<<"opus">>)),
                    Some(Arr(FlacMp3)), Some(NotArr)} }
    \cup
    { Msg(url, Some("p1"), Some("Kitchen"), Some(Num(25)), codecs) :
        url \in {None, Some("B")},
        codecs \in {Some(Arr(FlacMp3)), Some(NotArr)} }

\* The messages the player identity is explored with: a player id, a
\* player name or both, a server URL, and a codec list sent with an empty
\* or with no server URL.
IdentityMessages ==
    { Msg(None, id, name, None, None) :
        id \in {None, Some("p1")}, name \in {None, Some("Kitchen")} }
    \cup
    { Msg(Some("A"), None, None, None, None),
      Msg(Some(""), None, None, None, Some(Arr(FlacOpus))),
      Msg(None, None, None, None, Some(Arr(FlacOpus))) }

\* The messages the codec list of a client is explored with: a server URL
\* or none, with no codec list, an empty one, a valid one or one with an
\* unknown value.
CodecMessages ==
    { Msg(url, None, None, None, codecs) :
        url \in {None, Some("A"), Some("B")},
        codecs \in {None, Some(Arr(<<>>)), Some(Arr(FlacOpus)),
                    Some(Arr(FlacMp3))} }

\* The messages the remote control is explored with: one of two servers.
ControlMessages ==
    { Msg(url, None, None, None, None) : url \in {Some("A"), Some("B")} }

\* Request data of a host intent: its jump field, absent or a number.
RequestData == { [jump |-> j] : j \in {None, Some(-1), Some(0), Some(1), Some(2)} }

\* The message types an interceptor is registered for.
IntentTypes == {"PLAY", "PAUSE", "STOP", "QUEUE_UPDATE"}

\* An outgoing MEDIA_STATUS report: null, or a status with a playerState.
MediaStatuses ==
    {None} \cup { Some([playerState |-> ps]) :
                    ps \in {"IDLE", "PLAYING", "PAUSED", "BUFFERING"} }

\* event.key of a keydown event.
Keys == {"Enter", " ", "ArrowLeft", "ArrowRight", "Escape"}

\* ------------------------------------------------------------ pure helpers
isCodec(v) == v \in KNOWN_CODECS

\* Variant of ValidCodecs with `some` in place of `every`.
ValidCodecsSome(c) ==
    /\ IsSome(c)
    /\ Get(c).isArray
    /\ \E i \in 1..Len(Get(c).items) : isCodec(Get(c).items[i])

\* Array.isArray(codecs) && codecs.every(isCodec)
ValidCodecs(c) ==
    /\ IsSome(c)
    /\ Get(c).isArray
    /\ \A i \in 1..Len(Get(c).items) : isCodec(Get(c).items[i])

\* Variant of IsNumber that takes any present value for a number.
IsNumberLoose(d) == IsSome(d)

\* typeof syncDelay === "number"
IsNumber(d) == IsSome(d) /\ Get(d).isNumber

\* JSON.stringify of a codec array, as the list of its tokens: the array
\* brackets and, in order, each element in quotes separated by commas.
RECURSIVE JoinQuoted(_)
JoinQuoted(s) ==
    IF s = <<>> THEN <<>>
    ELSE IF Len(s) = 1 THEN << "\"", s[1], "\"" >>
    ELSE << "\"", s[1], "\"", "," >> \o JoinQuoted(Tail(s))

JSONstringify(s) == << "[" >> \o JoinQuoted(s) \o << "]" >>

\* ------------------------------------------------------------------ state
VARIABLES
    phase,               \* "probing" | "wired" | "exhausted": the retry loop
    attempt,             \* argument of the pending initCastReceiverWithRetry
                         \* call (0 once no call is pending any more)
    receiverStarted,     \* let receiverStarted
    castContext,         \* let castContext (FALSE = null)
    player,              \* let player: 0 = undefined, else a client's index
    clients,             \* every SendspinPlayer constructed so far, in order
    providedPlayerId,    \* let providedPlayerId (optional)
    providedPlayerName,  \* let providedPlayerName (optional)
    providedSyncDelay,   \* let providedSyncDelay
    providedCodecs,      \* let providedCodecs (optional codec list)
    currentServerUrl,    \* let currentServerUrl (optional)
    currentPlayerCodecs, \* let currentPlayerCodecs (optional codec list)
    statusIntervalId,    \* let statusIntervalId: 0 = null, else the handle
    progressIntervalId,  \* let progressIntervalId: 0 = null, else the handle
    intervals,           \* the intervals the browser has scheduled
    isPlaying,           \* currentPlayerState.isPlaying
    effects              \* calls made by the last handler, in order

vars ==
    << phase, attempt, receiverStarted, castContext, player, clients,
       providedPlayerId, providedPlayerName, providedSyncDelay,
       providedCodecs, currentServerUrl, currentPlayerCodecs,
       statusIntervalId, progressIntervalId, intervals, isPlaying,
       effects >>

\* An interval handle is named by the client its closure captured: a client
\* gets at most one status interval (its continuation runs once) and a
\* progress interval is only created while progressIntervalId is null.
Interval(kind, owner) == [kind |-> kind, owner |-> owner]

ClientIds == 1..Len(clients)

\* ------------------------------------------------------------ effect model
SetStatusFx(text) == [op |-> "setStatus", text |-> text]
SetProgressFx(pos, dur) == [op |-> "setProgress", pos |-> pos, dur |-> dur]
ClearIntervalFx(kind, h) == [op |-> "clearInterval", kind |-> kind, handle |-> h]
SetIntervalFx(kind, h, ms) ==
    [op |-> "setInterval", kind |-> kind, handle |-> h, ms |-> ms]
DisconnectFx(c) == [op |-> "disconnect", client |-> c]
ConstructFx(c, cfg) == [op |-> "new", client |-> c, config |-> cfg]
ConnectFx(c) == [op |-> "connect", client |-> c]
SetSyncDelayFx(c, d) == [op |-> "setSyncDelay", client |-> c, delay |-> d]
SendCommandFx(c, cmd) == [op |-> "sendCommand", client |-> c, command |-> cmd]
ReturnFx(data) == [op |-> "return", data |-> data]
ReturnStatusFx(status) == [op |-> "returnStatus", status |-> status]

\* Variant of sendStatusToSender that sends the status object as it is,
\* without a type field.
sendStatusUntagged(state, message, src) ==
    IF castContext
    THEN << [op |-> "send", type |-> "undefined", state |-> state,
             message |-> message, src |-> src] >>
    ELSE <<>>

\* sendStatusToSender: the payload is {type: "status", ...status}; nothing
\* is sent while castContext is null.  src is the client whose telemetry
\* (sync, syncInfo) the status carries, 0 when it carries none.
sendStatusToSender(state, message, src) ==
    IF castContext
    THEN << [op |-> "send", type |-> "status", state |-> state,
             message |-> message, src |-> src] >>
    ELSE <<>>

\* sendPlayerStatus(p) under a given value of currentPlayerState.isPlaying
sendPlayerStatus(p, playing) ==
    sendStatusToSender(IF playing THEN "playing" ELSE "stopped", None, p)

\* --------------------------------------------------------------- initial
Init ==
    /\ phase = "probing"
    /\ attempt = 0
    /\ receiverStarted = FALSE
    /\ castContext = FALSE
    /\ player = 0
    /\ clients = <<>>
    /\ providedPlayerId = None
    /\ providedPlayerName = None
    /\ providedSyncDelay = 0
    /\ providedCodecs = None
    /\ currentServerUrl = None
    /\ currentPlayerCodecs = None
    /\ statusIntervalId = 0
    /\ progressIntervalId = 0
    /\ intervals = {}
    /\ isPlaying = FALSE
    /\ effects = <<>>

sessionVars ==
    << player, clients, providedPlayerId, providedPlayerName,
       providedSyncDelay, providedCodecs, currentServerUrl,
       currentPlayerCodecs, statusIntervalId, progressIntervalId, intervals,
       isPlaying >>

\* ----------------------------------------------------- environment probe
\* Variant of tryInitCastReceiver without the receiverStarted guard.
tryInitCastReceiverUnguarded(available) ==
    IF ~available
    THEN [ ok |-> FALSE, started |-> receiverStarted, context |-> castContext,
           fx |-> <<>> ]
    ELSE [ ok |-> TRUE, started |-> TRUE, context |-> TRUE,
           fx |-> << [op |-> "wire"],
                     SetStatusFx("Waiting for sender..."),
                     [op |-> "start"] >> ]

\* tryInitCastReceiver(): what one call returns (ok) and what it leaves in
\* receiverStarted and castContext, with the calls it made (fx); available
\* is whether window.cast.framework and its context exist.
tryInitCastReceiver(available) ==
    IF receiverStarted
    THEN [ ok |-> TRUE, started |-> TRUE, context |-> castContext, fx |-> <<>> ]
    ELSE IF ~available
    THEN [ ok |-> FALSE, started |-> FALSE, context |-> castContext,
           fx |-> <<>> ]
    ELSE [ ok |-> TRUE, started |-> TRUE, context |-> TRUE,
           fx |-> << [op |-> "wire"],
                     SetStatusFx("Waiting for sender..."),
                     [op |-> "start"] >> ]

\* Variant of initCastReceiverWithRetry that reports the missing context
\* after MAX_INIT_RETRIES retries but goes on polling.
initCastReceiverKeepsPolling(available) ==
    LET r == tryInitCastReceiver(available)
    IN  /\ phase = "probing"
        /\ receiverStarted' = r.started
        /\ castContext' = r.context
        /\ IF r.ok
           THEN /\ phase' = "wired"
                /\ effects' = r.fx
                /\ attempt' = 0
           ELSE IF attempt >= MAX_INIT_RETRIES
           THEN /\ phase' = phase
                /\ effects' = r.fx \o
                     << SetStatusFx("Not running in a Cast receiver context"),
                        [op |-> "setTimeout", ms |-> RETRY_DELAY_MS] >>
                /\ UNCHANGED attempt
           ELSE /\ attempt' = attempt + 1
                /\ phase' = phase
                /\ effects' = r.fx \o
                     << [op |-> "setTimeout", ms |-> RETRY_DELAY_MS] >>
        /\ UNCHANGED sessionVars

\* Variant of initCastReceiverWithRetry that gives up once the number of
\* calls, not of retries, reaches MAX_INIT_RETRIES.
initCastReceiverCountingCalls(available) ==
    LET r == tryInitCastReceiver(available)
    IN  /\ phase = "probing"
        /\ receiverStarted' = r.started
        /\ castContext' = r.context
        /\ IF r.ok
           THEN /\ phase' = "wired"
                /\ effects' = r.fx
                /\ attempt' = 0
           ELSE IF attempt + 1 >= MAX_INIT_RETRIES
           THEN /\ phase' = "exhausted"
                /\ effects' = r.fx \o
                     << SetStatusFx("Not running in a Cast receiver context") >>
                /\ UNCHANGED attempt
           ELSE /\ attempt' = attempt + 1
                /\ phase' = phase
                /\ effects' = r.fx \o
                     << [op |-> "setTimeout", ms |-> RETRY_DELAY_MS] >>
        /\ UNCHANGED sessionVars

\* initCastReceiverWithRetry(attempt): one call of the polling function.
initCastReceiverWithRetry(available) ==
    LET r == tryInitCastReceiver(available)
    IN  /\ phase = "probing"
        /\ receiverStarted' = r.started
        /\ castContext' = r.context
        /\ IF r.ok
           THEN /\ phase' = "wired"
                /\ effects' = r.fx
                /\ attempt' = 0
           ELSE IF attempt >= MAX_INIT_RETRIES
           THEN /\ phase' = "exhausted"
                /\ effects' = r.fx \o
                     << SetStatusFx("Not running in a Cast receiver context") >>
                /\ UNCHANGED attempt
           ELSE /\ attempt' = attempt + 1
                /\ phase' = phase
                /\ effects' = r.fx \o
                     << [op |-> "setTimeout", ms |-> RETRY_DELAY_MS] >>
        /\ UNCHANGED sessionVars

Probe == \E available \in BOOLEAN : initCastReceiverWithRetry(available)

\* A call of tryInitCastReceiver() on its own, by any caller other than the
\* polling function.
CallTryInitCastReceiver(available) ==
    LET r == tryInitCastReceiver(available)
    IN  /\ receiverStarted' = r.started
        /\ castContext' = r.context
        /\ effects' = r.fx
        /\ UNCHANGED << phase, attempt, sessionVars >>

TryInit == \E available \in BOOLEAN : CallTryInitCastReceiver(available)

\* ------------------------------------------------------------ getPlayerId
\* The id provided by the sender when there is one; otherwise the id of
\* this device ("local"): the player_id query parameter, else the id kept
\* in localStorage, else a generated one that is then kept there.
getPlayerId(provided) ==
    IF TruthyStr(provided) THEN Get(provided) ELSE "local"

\* Variant of NewPlayerConfig that reads the sync delay stored before the
\* message was handled.
NewPlayerConfigStaleDelay(baseUrl) ==
    [ playerId |-> getPlayerId(providedPlayerId'),
      baseUrl |-> baseUrl,
      clientName |-> IF TruthyStr(providedPlayerName')
                     THEN Get(providedPlayerName')
                     ELSE DEFAULT_CLIENT_NAME,
      syncDelay |-> providedSyncDelay,
      codecs |-> Get(Coalesce(providedCodecs', Some(DEFAULT_CODECS))) ]

\* The options `new SendspinPlayer({...})` is called with, of those that
\* vary: the call runs inside the message listener after the provided*
\* variables were assigned, so it reads their new values.
NewPlayerConfig(baseUrl) ==
    [ playerId |-> getPlayerId(providedPlayerId'),
      baseUrl |-> baseUrl,
      clientName |-> IF TruthyStr(providedPlayerName')
                     THEN Get(providedPlayerName')
                     ELSE DEFAULT_CLIENT_NAME,
      syncDelay |-> providedSyncDelay',
      codecs |-> Get(Coalesce(providedCodecs', Some(DEFAULT_CODECS))) ]

\* Variant of connectToServer that constructs and connects the new client
\* first and tears the existing session down afterwards.
connectToServerConstructFirst(baseUrl, cl, fx) ==
    LET new == Len(cl) + 1
        cfg == NewPlayerConfig(baseUrl)
        cl1 == IF player # 0
               THEN [cl EXCEPT ![player].disconnected = TRUE]
               ELSE cl
    IN  /\ statusIntervalId' = 0
        /\ progressIntervalId' = 0
        /\ intervals' = intervals \
              ( (IF statusIntervalId # 0
                 THEN {Interval("status", statusIntervalId)} ELSE {})
                \cup
                (IF progressIntervalId # 0
                 THEN {Interval("progress", progressIntervalId)} ELSE {}) )
        /\ clients' = Append(cl1, [ baseUrl |-> cfg.baseUrl,
                                     codecs |-> cfg.codecs,
                                     syncDelay |-> cfg.syncDelay,
                                     conn |-> "pending",
                                     disconnected |-> FALSE,
                                     closed |-> FALSE ])
        /\ effects' =
             fx
             \o << SetStatusFx("Connecting...") >>
             \o sendStatusToSender("connecting", Some("Connecting to server..."), 0)
             \o << ConstructFx(new, cfg), ConnectFx(new) >>
             \o (IF statusIntervalId # 0
                 THEN << ClearIntervalFx("status", statusIntervalId) >>
                 ELSE <<>>)
             \o (IF progressIntervalId # 0
                 THEN << ClearIntervalFx("progress", progressIntervalId) >>
                 ELSE <<>>)
             \o (IF player # 0 THEN << DisconnectFx(player) >> ELSE <<>>)
        /\ UNCHANGED << player, currentServerUrl, currentPlayerCodecs, isPlaying >>

\* -------------------------------------------------------- connectToServer
\* The synchronous part of connectToServer(baseUrl), up to the await.  It
\* runs inside the message listener after the provided* variables were
\* assigned, so it reads their new values; cl and fx are the clients and
\* the effects as the listener left them before the call.
connectToServer(baseUrl, cl, fx) ==
    LET new == Len(cl) + 1
        cfg == NewPlayerConfig(baseUrl)
        cl1 == IF player # 0
               THEN [cl EXCEPT ![player].disconnected = TRUE]
               ELSE cl
    IN  /\ statusIntervalId' = 0
        /\ progressIntervalId' = 0
        /\ intervals' = intervals \
              ( (IF statusIntervalId # 0
                 THEN {Interval("status", statusIntervalId)} ELSE {})
                \cup
                (IF progressIntervalId # 0
                 THEN {Interval("progress", progressIntervalId)} ELSE {}) )
        /\ clients' = Append(cl1, [ baseUrl |-> cfg.baseUrl,
                                     codecs |-> cfg.codecs,
                                     syncDelay |-> cfg.syncDelay,
                                     conn |-> "pending",
                                     disconnected |-> FALSE,
                                     closed |-> FALSE ])
        /\ effects' =
             fx
             \o (IF statusIntervalId # 0
                 THEN << ClearIntervalFx("status", statusIntervalId) >>
                 ELSE <<>>)
             \o (IF progressIntervalId # 0
                 THEN << ClearIntervalFx("progress", progressIntervalId) >>
                 ELSE <<>>)
             \o (IF player # 0 THEN << DisconnectFx(player) >> ELSE <<>>)
             \o << SetStatusFx("Connecting...") >>
             \o sendStatusToSender("connecting", Some("Connecting to server..."), 0)
             \o << ConstructFx(new, cfg), ConnectFx(new) >>
        /\ UNCHANGED << player, currentServerUrl, currentPlayerCodecs, isPlaying >>

\* connectToServer(baseUrl) where player.disconnect() throws: the statement
\* is in no try block, so the exception ends the call (the promise of the
\* async function is rejected, and nobody awaits it) after the intervals
\* were cleared.  What became of the old session is the SDK's matter; the
\* request is recorded on it.
connectToServerThrown(baseUrl, cl, fx) ==
    /\ player # 0
    /\ statusIntervalId' = 0
    /\ progressIntervalId' = 0
    /\ intervals' = intervals \
          ( (IF statusIntervalId # 0
             THEN {Interval("status", statusIntervalId)} ELSE {})
            \cup
            (IF progressIntervalId # 0
             THEN {Interval("progress", progressIntervalId)} ELSE {}) )
    /\ clients' = [cl EXCEPT ![player].disconnected = TRUE]
    /\ effects' =
         fx
         \o (IF statusIntervalId # 0
             THEN << ClearIntervalFx("status", statusIntervalId) >>
             ELSE <<>>)
         \o (IF progressIntervalId # 0
             THEN << ClearIntervalFx("progress", progressIntervalId) >>
             ELSE <<>>)
         \o << DisconnectFx(player), [op |-> "throw"] >>
    /\ UNCHANGED << player, currentServerUrl, currentPlayerCodecs, isPlaying >>

\* connectToServer(baseUrl) where player.disconnect() returns normally or
\* throws.  A promise it returns is dropped, so a rejection of that promise
\* changes nothing in the call.
connectToServerFaulty(baseUrl, cl, fx) ==
    \/ connectToServer(baseUrl, cl, fx)
    \/ connectToServerThrown(baseUrl, cl, fx)

\* The listener returns without calling connectToServer.
NoConnect(cl, fx) ==
    /\ clients' = cl
    /\ effects' = fx
    /\ UNCHANGED << player, currentServerUrl, currentPlayerCodecs, isPlaying,
                    statusIntervalId, progressIntervalId, intervals >>

\* Set of the elements of a list.
Elements(s) == {s[i] : i \in 1..Len(s)}

\* Variant of CodecsChanged that compares the two lists as sets.
CodecsChangedAsSets(pl, current, provided) ==
    /\ pl # 0
    /\ IsSome(current)
    /\ IsSome(provided)
    /\ Elements(Get(provided)) # Elements(Get(current))

\* Codec change test of the listener, on the values after the assignments.
CodecsChanged(pl, current, provided) ==
    /\ pl # 0
    /\ IsSome(current)
    /\ IsSome(provided)
    /\ JSONstringify(Get(provided)) # JSONstringify(Get(current))

\* Variant of TargetUrl that takes the server URL from the message alone.
TargetUrlFromMessage(serverUrl, current) == serverUrl

\* Variant of TargetUrl that prefers the current server URL.
TargetUrlPreferCurrent(serverUrl, current) == Coalesce(current, serverUrl)

\* const targetUrl = serverUrl ?? currentServerUrl
TargetUrl(serverUrl, current) == Coalesce(serverUrl, current)

\* serverUrl && serverUrl !== currentServerUrl
ServerUrlChanged(serverUrl, current) ==
    TruthyStr(serverUrl) /\ serverUrl # current

\* ------------------------------------------- addCustomMessageListener body
\* The listener for a message with a data object m; mayThrow is whether
\* the player.disconnect() of a connectToServer call may throw.
Listener(m, mayThrow) ==
    /\ receiverStarted
    /\ providedCodecs' = IF ValidCodecs(m.codecs)
                         THEN Some(Get(m.codecs).items)
                         ELSE providedCodecs
    /\ providedPlayerId' = IF TruthyStr(m.playerId)
                           THEN m.playerId ELSE providedPlayerId
    /\ providedPlayerName' = IF TruthyStr(m.playerName)
                             THEN m.playerName ELSE providedPlayerName
    /\ providedSyncDelay' = IF IsNumber(m.syncDelay)
                            THEN Get(m.syncDelay).val ELSE providedSyncDelay
    /\ LET pushDelay == IsNumber(m.syncDelay) /\ player # 0
           cl == IF pushDelay
                 THEN [clients EXCEPT ![player].syncDelay = Get(m.syncDelay).val]
                 ELSE clients
           fx == IF pushDelay
                 THEN << SetSyncDelayFx(player, Get(m.syncDelay).val) >>
                 ELSE <<>>
           targetUrl == TargetUrl(m.serverUrl, currentServerUrl)
           Connect(baseUrl, cl0, fx0) ==
               IF mayThrow
               THEN connectToServerFaulty(baseUrl, cl0, fx0)
               ELSE connectToServer(baseUrl, cl0, fx0)
       IN  IF CodecsChanged(player, currentPlayerCodecs, providedCodecs')
           THEN IF TruthyStr(targetUrl)
                THEN Connect(Get(targetUrl), cl, fx)
                ELSE NoConnect(cl, fx)
           ELSE IF ServerUrlChanged(m.serverUrl, currentServerUrl)
                THEN Connect(Get(m.serverUrl), cl, fx)
                ELSE NoConnect(cl, fx)
    /\ UNCHANGED << phase, attempt, receiverStarted, castContext >>

\* The listener where player.disconnect() returns normally.
OnMessage(m) == Listener(m, FALSE)

\* The listener where player.disconnect() may throw.
OnMessageFaulty(m) == Listener(m, TRUE)

\* The listener for a message without data: `if (!event.data) return`.
OnEmptyMessage ==
    /\ receiverStarted
    /\ effects' = <<>>
    /\ UNCHANGED << phase, attempt, receiverStarted, castContext, sessionVars >>

ReconcileMessage ==
    \/ OnEmptyMessage
    \/ \E m \in ReconcileMessages : OnMessage(m) /\ Len(clients') <= MaxClients

SyncMessage ==
    \/ OnEmptyMessage
    \/ \E m \in SyncMessages : OnMessage(m) /\ Len(clients') <= MaxClients

TelemetryMessage ==
    \/ OnEmptyMessage
    \/ \E m \in TelemetryMessages : OnMessage(m) /\ Len(clients') <= MaxClients

MergeMessage ==
    \/ OnEmptyMessage
    \/ \E m \in MergeMessages :
          OnMessage(m) /\ Len(clients') <= MaxMergeClients

FaultyMessage ==
    \/ OnEmptyMessage
    \/ \E m \in TelemetryMessages :
          OnMessageFaulty(m) /\ Len(clients') <= MaxClients

IdentityMessage ==
    \/ OnEmptyMessage
    \/ \E m \in IdentityMessages :
          OnMessage(m) /\ Len(clients') <= MaxClients

CodecMessage ==
    \/ OnEmptyMessage
    \/ \E m \in CodecMessages : OnMessage(m) /\ Len(clients') <= MaxClients

RetryMessage ==
    \/ OnEmptyMessage
    \/ \E m \in RetryMessages :
          OnMessage(m) /\ Len(clients') <= MaxClients + 1

\* ------------------------------------- continuation of connectToServer
\* `await newPlayer.connect()` resolved for client c.
ConnectResolved(c) ==
    /\ clients[c].conn = "pending"
    /\ clients' = [clients EXCEPT ![c].conn = "connected"]
    /\ player' = c
    /\ currentServerUrl' = Some(clients[c].baseUrl)
    /\ currentPlayerCodecs' = Coalesce(providedCodecs, Some(DEFAULT_CODECS))
    /\ statusIntervalId' = c
    /\ intervals' = intervals \cup {Interval("status", c)}
    /\ effects' = << SetStatusFx("Ready to play") >>
                  \o sendStatusToSender("connected", Some("Ready to play"), 0)
                  \o << SetIntervalFx("status", c, STATUS_INTERVAL_MS) >>
    /\ UNCHANGED << phase, attempt, receiverStarted, castContext,
                    providedPlayerId, providedPlayerName, providedSyncDelay,
                    providedCodecs, progressIntervalId, isPlaying >>

\* Variant of ConnectRejected whose catch block reports nothing.
ConnectRejectedSilent(c) ==
    /\ clients[c].conn = "pending"
    /\ clients' = [clients EXCEPT ![c].conn = "failed"]
    /\ effects' = << SetStatusFx("Connection failed") >>
    /\ UNCHANGED << phase, attempt, receiverStarted, castContext, player,
                    providedPlayerId, providedPlayerName, providedSyncDelay,
                    providedCodecs, currentServerUrl, currentPlayerCodecs,
                    statusIntervalId, progressIntervalId, intervals,
                    isPlaying >>

\* `await newPlayer.connect()` rejected for client c.
ConnectRejected(c) ==
    /\ clients[c].conn = "pending"
    /\ clients' = [clients EXCEPT ![c].conn = "failed"]
    /\ effects' = << SetStatusFx("Connection failed") >>
                  \o sendStatusToSender("error", Some("Connection failed"), 0)
    /\ UNCHANGED << phase, attempt, receiverStarted, castContext, player,
                    providedPlayerId, providedPlayerName, providedSyncDelay,
                    providedCodecs, currentServerUrl, currentPlayerCodecs,
                    statusIntervalId, progressIntervalId, intervals,
                    isPlaying >>

ConnectSettled ==
    \E c \in ClientIds : ConnectResolved(c) \/ ConnectRejected(c)

\* ------------------------------------------------- end of a disconnect()
\* The teardown that `player.disconnect()` started on client c has finished.
\* connectToServer does not wait for it: the call is not awaited, so the
\* teardown ends at some later point of the SDK's choosing, at the earliest
\* right after the handler that requested it.
DisconnectFinished(c) ==
    /\ clients[c].disconnected
    /\ ~clients[c].closed
    /\ clients' = [clients EXCEPT ![c].closed = TRUE]
    /\ effects' = <<>>
    /\ UNCHANGED << phase, attempt, receiverStarted, castContext, player,
                    providedPlayerId, providedPlayerName, providedSyncDelay,
                    providedCodecs, currentServerUrl, currentPlayerCodecs,
                    statusIntervalId, progressIntervalId, intervals,
                    isPlaying >>

TeardownFinished == \E c \in ClientIds : DisconnectFinished(c)

\* ------------------------------------------------ onStateChange callback
\* Variant of onStateChange that resets the displayed progress when the
\* metadata is cleared but leaves the progress interval running.
onStateChangeKeepsInterval(c, playing, metadata) ==
    /\ clients[c].conn = "connected"
    /\ isPlaying' = playing
    /\ IF metadata /\ progressIntervalId = 0
       THEN /\ progressIntervalId' = c
            /\ intervals' = intervals \cup {Interval("progress", c)}
       ELSE UNCHANGED << progressIntervalId, intervals >>
    /\ effects' =
         << SetStatusFx(IF playing THEN "Playing" ELSE "Paused") >>
         \o (IF metadata
             THEN IF progressIntervalId = 0
                  THEN << SetIntervalFx("progress", c, PROGRESS_INTERVAL_MS) >>
                  ELSE <<>>
             ELSE << SetProgressFx(0, 0) >>)
         \o sendPlayerStatus(c, playing)
    /\ UNCHANGED << phase, attempt, receiverStarted, castContext, player,
                    clients, providedPlayerId, providedPlayerName,
                    providedSyncDelay, providedCodecs, currentServerUrl,
                    currentPlayerCodecs, statusIntervalId >>

\* The callback the client c was constructed with, called by the SDK with
\* state.isPlaying = playing and state.serverState.metadata present or not.
\* The SDK calls it for a client whose connect() has resolved; whether it
\* still does so after disconnect() is up to the SDK, so both happen.
onStateChange(c, playing, metadata) ==
    /\ clients[c].conn = "connected"
    /\ isPlaying' = playing
    /\ IF metadata
       THEN IF progressIntervalId = 0
            THEN /\ progressIntervalId' = c
                 /\ intervals' = intervals \cup {Interval("progress", c)}
            ELSE UNCHANGED << progressIntervalId, intervals >>
       ELSE /\ progressIntervalId' = 0
            /\ intervals' =
                 IF progressIntervalId # 0
                 THEN intervals \ {Interval("progress", progressIntervalId)}
                 ELSE intervals
    /\ effects' =
         << SetStatusFx(IF playing THEN "Playing" ELSE "Paused") >>
         \o (IF metadata
             THEN IF progressIntervalId = 0
                  THEN << SetIntervalFx("progress", c, PROGRESS_INTERVAL_MS) >>
                  ELSE <<>>
             ELSE << SetProgressFx(0, 0) >>
                  \o (IF progressIntervalId # 0
                      THEN << ClearIntervalFx("progress", progressIntervalId) >>
                      ELSE <<>>))
         \o sendPlayerStatus(c, playing)
    /\ UNCHANGED << phase, attempt, receiverStarted, castContext, player,
                    clients, providedPlayerId, providedPlayerName,
                    providedSyncDelay, providedCodecs, currentServerUrl,
                    currentPlayerCodecs, statusIntervalId >>

StateChange ==
    \E c \in ClientIds, playing \in BOOLEAN, metadata \in BOOLEAN :
        onStateChange(c, playing, metadata)

\* ---------------------------------------------------------------- timers
\* One firing of the 1000 ms interval whose closure captured client c:
\* updateDebug(c); sendPlayerStatus(c).
StatusTick(c) ==
    /\ Interval("status", c) \in intervals
    /\ effects' = sendPlayerStatus(c, isPlaying)
    /\ UNCHANGED << phase, attempt, receiverStarted, castContext, sessionVars >>

\* Variant of updateProgressBar without the isPlaying test.
updateProgressBarWhilePaused(c, hasProgress) ==
    /\ Interval("progress", c) \in intervals
    /\ effects' = IF hasProgress
                  THEN << [op |-> "setProgress", client |-> c] >>
                  ELSE <<>>
    /\ UNCHANGED << phase, attempt, receiverStarted, castContext, sessionVars >>

\* One firing of the 200 ms interval whose closure captured client c:
\* updateProgressBar(c); hasProgress is whether c.trackProgress is set.
updateProgressBar(c, hasProgress) ==
    /\ Interval("progress", c) \in intervals
    /\ effects' = IF isPlaying /\ hasProgress
                  THEN << [op |-> "setProgress", client |-> c] >>
                  ELSE <<>>
    /\ UNCHANGED << phase, attempt, receiverStarted, castContext, sessionVars >>

TimerFired ==
    \E c \in ClientIds :
        \/ StatusTick(c)
        \/ \E hasProgress \in BOOLEAN : updateProgressBar(c, hasProgress)

\* ------------------------------------------ SYSTEM_VOLUME_CHANGED listener
SystemVolumeChanged ==
    /\ receiverStarted
    /\ effects' =
         << SetStatusFx(IF isPlaying THEN "Playing" ELSE "Paused") >>
         \o (IF player # 0
             THEN sendPlayerStatus(player, isPlaying)
             ELSE sendStatusToSender("connected", None, 0))
    /\ UNCHANGED << phase, attempt, receiverStarted, castContext, sessionVars >>

\* ------------------------------------------------- message interceptors
\* Variant of IntentCommand in which STOP has a command of its own.
IntentCommandWithStop(type, data) ==
    IF type = "PLAY" THEN Some("play")
    ELSE IF type = "PAUSE" THEN Some("pause")
    ELSE IF type = "STOP" THEN Some("stop")
    ELSE IF data.jump = Some(1) THEN Some("next")
    ELSE IF data.jump = Some(-1) THEN Some("previous")
    ELSE None

\* The command the interceptor of a message type sends for a request, if
\* any.
IntentCommand(type, data) ==
    IF type = "PLAY" THEN Some("play")
    ELSE IF type = "PAUSE" THEN Some("pause")
    ELSE IF type = "STOP" THEN Some("pause")
    ELSE IF data.jump = Some(1) THEN Some("next")
    ELSE IF data.jump = Some(-1) THEN Some("previous")
    ELSE None

\* player?.sendCommand(cmd) for an optional command.
sendCommand(cmd) ==
    IF player # 0 /\ IsSome(cmd)
    THEN << SendCommandFx(player, Get(cmd)) >>
    ELSE <<>>

\* The interceptor of PLAY, PAUSE, STOP or QUEUE_UPDATE, called with the
\* request data; they are registered when the receiver is wired (the
\* context has a player manager).
Interceptor(type, data) ==
    /\ receiverStarted
    /\ effects' = sendCommand(IntentCommand(type, data)) \o << ReturnFx(data) >>
    /\ UNCHANGED << phase, attempt, receiverStarted, castContext, sessionVars >>

Intent == \E type \in IntentTypes, data \in RequestData : Interceptor(type, data)

\* Variant of OverridePlayerState that keeps a PLAYING the status carried.
OverrideUnlessPlaying(status) ==
    IF status = None THEN None
    ELSE IF Get(status).playerState = "PLAYING" THEN status
    ELSE Some([Get(status) EXCEPT
                 !.playerState = IF isPlaying THEN "PLAYING" ELSE "PAUSED"])

\* What the MEDIA_STATUS interceptor returns for a status.
OverridePlayerState(status) ==
    IF status = None THEN None
    ELSE Some([Get(status) EXCEPT
                 !.playerState = IF isPlaying THEN "PLAYING" ELSE "PAUSED"])

\* The interceptor of MEDIA_STATUS.
MediaStatusInterceptor(status) ==
    /\ receiverStarted
    /\ effects' = << ReturnStatusFx(OverridePlayerState(status)) >>
    /\ UNCHANGED << phase, attempt, receiverStarted, castContext, sessionVars >>

MediaStatus == \E status \in MediaStatuses : MediaStatusInterceptor(status)

\* -------------------------------------------------------- keydown listener
\* Variant of KeyCommand whose Enter and Space always send play.
KeyCommandAlwaysPlay(key) ==
    IF key \in {"Enter", " "} THEN Some("play")
    ELSE IF key = "ArrowLeft" THEN Some("previous")
    ELSE IF key = "ArrowRight" THEN Some("next")
    ELSE None

\* The command the keydown listener sends for a key, if any.
KeyCommand(key) ==
    IF key \in {"Enter", " "}
    THEN Some(IF isPlaying THEN "pause" ELSE "play")
    ELSE IF key = "ArrowLeft" THEN Some("previous")
    ELSE IF key = "ArrowRight" THEN Some("next")
    ELSE None

OnKeyDown(key) ==
    /\ receiverStarted
    /\ effects' = sendCommand(KeyCommand(key))
    /\ UNCHANGED << phase, attempt, receiverStarted, castContext, sessionVars >>

KeyDown == \E key \in Keys : OnKeyDown(key)

\* A state change that reports the play/pause flag and no metadata.
PlayStateChange ==
    \E c \in ClientIds, playing \in BOOLEAN : onStateChange(c, playing, FALSE)

ControlMessage ==
    \/ OnEmptyMessage
    \/ \E m \in ControlMessages : OnMessage(m) /\ Len(clients') <= MaxClients

\* ----------------------------------------------------------- specification
\* The reconciliation of configuration messages against the session:
\* messages and the outcomes of the connects they start.  The state-change
\* callback and the timers write none of the variables the listener and
\* connectToServer decide on, so they are left to SpecTelemetry.
Next ==
    \/ Probe
    \/ ReconcileMessage
    \/ ConnectSettled

Spec == Init /\ [][Next]_vars

\* The same under the event loop's scheduling: a pending call of the
\* polling function, the first one or one scheduled by setTimeout, is
\* eventually run.
SpecPolling == Init /\ [][Next]_vars /\ WF_vars(Probe)

\* The sync delay of the session against configuration messages.
NextSync ==
    \/ Probe
    \/ SyncMessage
    \/ ConnectSettled

SpecSync == Init /\ [][NextSync]_vars

\* Sessions with their telemetry: state changes, timers, volume events.
NextTelemetry ==
    \/ Probe
    \/ TelemetryMessage
    \/ ConnectSettled
    \/ SystemVolumeChanged
    \/ TimerFired
    \/ StateChange

SpecTelemetry == Init /\ [][NextTelemetry]_vars

\* The merging of the fields of configuration messages into the stored
\* configuration.
NextMerge ==
    \/ Probe
    \/ MergeMessage
    \/ ConnectSettled

SpecMerge == Init /\ [][NextMerge]_vars

\* Reconnects with the end of each requested teardown as an event.
NextTeardown ==
    \/ Probe
    \/ TelemetryMessage
    \/ ConnectSettled
    \/ TeardownFinished

SpecTeardown == Init /\ [][NextTeardown]_vars

\* Reconnects where the disconnect() of the old session may throw.
NextFaulty ==
    \/ Probe
    \/ FaultyMessage
    \/ ConnectSettled

SpecFaulty == Init /\ [][NextFaulty]_vars

\* The remote control: host intents, media-status reports and keys against
\* sessions that come, go and report their play/pause flag.
NextControl ==
    \/ Probe
    \/ ControlMessage
    \/ ConnectSettled
    \/ PlayStateChange
    \/ Intent
    \/ MediaStatus
    \/ KeyDown

SpecControl == Init /\ [][NextControl]_vars

\* The player id and name against the session.
NextIdentity ==
    \/ Probe
    \/ IdentityMessage
    \/ ConnectSettled

SpecIdentity == Init /\ [][NextIdentity]_vars

\* Reconnects of sessions that have both of their intervals running.
NextOrder ==
    \/ Probe
    \/ ControlMessage
    \/ ConnectSettled
    \/ StateChange

SpecOrder == Init /\ [][NextOrder]_vars

\* The codec lists clients are constructed with.
NextCodecs ==
    \/ Probe
    \/ CodecMessage
    \/ ConnectSettled

SpecCodecs == Init /\ [][NextCodecs]_vars

\* A failed connect and the messages that follow it: one client more than
\* elsewhere, for a session, its failed replacement and a further attempt.
NextRetry ==
    \/ Probe
    \/ RetryMessage
    \/ ConnectSettled

SpecRetry == Init /\ [][NextRetry]_vars

\* tryInitCastReceiver against repeated calls: the polling function and
\* direct calls of tryInitCastReceiver, in any order.
NextWire ==
    \/ Probe
    \/ TryInit

SpecWire == Init /\ [][NextWire]_vars

\* ------------------------------------------------------ claim vocabulary
\* c is a live session: its connect() completed successfully and no
\* disconnect() has been requested on it.
Live(c) == clients[c].conn = "connected" /\ ~clients[c].disconnected

\* A session is active: `player` references a live session.
Active == player # 0 /\ Live(player)

NoConnectPending == \A c \in ClientIds : clients[c].conn # "pending"

\* Positions in a list of effects of the calls with a given op.
Calls(fx, op) == {i \in DOMAIN fx : fx[i].op = op}

\* Positions of the statuses of a given state sent to the sender.
Sent(fx, state) ==
    {i \in DOMAIN fx : fx[i].op = "send" /\ fx[i].state = state}

\* The step constructs exactly one client, on top of the existing ones.
OneReconnect ==
    /\ Len(clients') = Len(clients) + 1
    /\ Cardinality(Calls(effects', "new")) = 1
    /\ Cardinality(Calls(effects', "connect")) = 1
    /\ Cardinality(Sent(effects', "connecting")) = 1

\* The step constructs no client and reports no `connecting`.
NoReconnect ==
    /\ Len(clients') = Len(clients)
    /\ Calls(effects', "new") = {}
    /\ Calls(effects', "connect") = {}
    /\ Sent(effects', "connecting") = {}

\* The configuration the step's one new client was constructed with.
NewConfig == effects'[CHOOSE i \in Calls(effects', "new") : TRUE].config

\* The codec list a message carries validly.
CodecsOf(m) == Get(m.codecs).items

\* ------------------------------------------------------------------ C1
\* C1: at most one session is live at any instant: in every reachable
\* state at most one constructed client has a successfully completed
\* connect() without a later disconnect() request on it.
C1_AtMostOneLiveSession ==
    Cardinality({c \in ClientIds : Live(c)}) <= 1

\* ------------------------------------------------------------------ C2
\* C2: the latest reconnect request wins: once all pending connects have
\* resolved, and the connect of the most recently constructed client
\* succeeded, the installed session is that client, whatever order the
\* connects resolved in.
C2_LatestRequestWins ==
    ( /\ clients # <<>>
      /\ NoConnectPending
      /\ clients[Len(clients)].conn = "connected" )
    => player = Len(clients)

\* ------------------------------------------------------------------ C3
\* C3: no outbound status references a torn-down session: no status sent
\* to the sender carries the telemetry of a client whose disconnect has
\* been requested.
C3_NoStatusFromTornDownSession ==
    \A i \in Calls(effects, "send") :
        effects[i].src # 0 => ~clients[effects[i].src].disconnected

\* ------------------------------------------------------------------ C4
\* C4: timer hygiene: in every reachable state every live interval
\* (status or progress) belongs to the currently installed session, and
\* that session has not been torn down.
C4_IntervalsBelongToInstalledSession ==
    \A t \in intervals : t.owner = player /\ Live(t.owner)

\* ------------------------------------------------------------------ C5
\* The message carries a numeric sync delay and changes neither the server
\* URL nor the codecs of the active session.
C5_SyncDelayOnly(m) ==
    /\ Active
    /\ IsNumber(m.syncDelay)
    /\ m.serverUrl \in {None, currentServerUrl}
    /\ \/ m.codecs = None
       \/ ValidCodecs(m.codecs) /\ CodecsOf(m) = clients[player].codecs

\* C5: for every config message that carries only a syncDelay (serverUrl
\* and codecs absent or unchanged) while a session is active, no reconnect
\* occurs (no client is constructed, no `connecting` is sent), the
\* installed session keeps its identity and stays connected, and
\* setSyncDelay is called on it with the new value.
C5_SyncDelayUpdatesInPlace ==
    [][ \A m \in SyncMessages :
          (C5_SyncDelayOnly(m) /\ OnMessage(m)) =>
              /\ NoReconnect
              /\ player' = player
              /\ Live(player)'
              /\ \E i \in Calls(effects', "setSyncDelay") :
                    effects'[i] = SetSyncDelayFx(player, Get(m.syncDelay).val)
      ]_vars

\* ------------------------------------------------------------------ C6
\* The message carries a valid codec list that differs from the codecs the
\* connected session was constructed with.
C6_CodecsDiffer(m) ==
    /\ Active
    /\ ValidCodecs(m.codecs)
    /\ CodecsOf(m) # clients[player].codecs

\* C6: for every config message whose valid codec list differs from the
\* codecs of the connected session, exactly one reconnect occurs (one
\* `connecting` status, one new client), and the new client is constructed
\* with the new codec list and with the message's serverUrl if present,
\* otherwise the previously connected server URL.
C6_CodecChangeReconnectsOnce ==
    [][ \A m \in ReconcileMessages :
          (C6_CodecsDiffer(m) /\ OnMessage(m)) =>
              /\ OneReconnect
              /\ NewConfig.codecs = CodecsOf(m)
              /\ Some(NewConfig.baseUrl) =
                    (IF IsSome(m.serverUrl) THEN m.serverUrl
                     ELSE Some(clients[player].baseUrl))
      ]_vars

\* ------------------------------------------------------------------ C7
\* The message carries a valid codec list with the same elements as the
\* codecs the active session was constructed with, and no server URL.
C7_PermutedCodecs(m) ==
    /\ Active
    /\ ValidCodecs(m.codecs)
    /\ Elements(CodecsOf(m)) = Elements(clients[player].codecs)
    /\ Len(CodecsOf(m)) = Len(clients[player].codecs)
    /\ m.serverUrl = None

C8_CodecsUnchanged(m) ==
    /\ Active
    /\ \/ ~ValidCodecs(m.codecs)
       \/ CodecsOf(m) = clients[player].codecs

\* C8: with a session active and codecs unchanged, a config message
\* triggers a reconnect if and only if it carries a (non-empty) serverUrl
\* different from the session's current server URL; a message repeating
\* the current server URL never reconnects.
C8_ReconnectIffServerUrlDiffers ==
    [][ \A m \in ReconcileMessages :
          (C8_CodecsUnchanged(m) /\ OnMessage(m)) =>
              IF TruthyStr(m.serverUrl)
                 /\ Get(m.serverUrl) # clients[player].baseUrl
              THEN OneReconnect /\ NewConfig.baseUrl = Get(m.serverUrl)
              ELSE NoReconnect
      ]_vars

\* ------------------------------------------------------------------ C9
\* No active (connected) session exists and no connect is in flight.
C9_NoSession == ~Active /\ NoConnectPending

\* C9: whenever no active session exists, including after a failed connect
\* or a failed reconnect, any config message that carries a (non-empty)
\* serverUrl starts a connect attempt to it, even when that serverUrl
\* equals the URL of the last successful connection.
C9_ServerUrlConnectsWhenNoSession ==
    [][ \A m \in ReconcileMessages :
          (C9_NoSession /\ TruthyStr(m.serverUrl) /\ OnMessage(m)) =>
              OneReconnect /\ NewConfig.baseUrl = Get(m.serverUrl)
      ]_vars

\* ----------------------------------------------------------------- C10
\* The message changes both the codec list and the server URL of the
\* active session.
C10_BothChange(m) ==
    /\ Active
    /\ ValidCodecs(m.codecs)
    /\ CodecsOf(m) # clients[player].codecs
    /\ TruthyStr(m.serverUrl)
    /\ Get(m.serverUrl) # clients[player].baseUrl

\* C10: a single inbound message causes at most one connectToServer call
\* (at most one client constructed, one connect and one `connecting`), and
\* when the message changes both the codec list and the server URL, one
\* reconnect is performed that uses the new codecs and the new URL
\* together.
C10_OneReconnectPerMessage ==
    [][ \A m \in ReconcileMessages :
          OnMessage(m) =>
              /\ OneReconnect \/ NoReconnect
              /\ C10_BothChange(m) =>
                    /\ OneReconnect
                    /\ NewConfig.codecs = CodecsOf(m)
                    /\ NewConfig.baseUrl = Get(m.serverUrl)
      ]_vars

\* C10 witness: the last message replaced an active session by one client
\* with another server URL and other codecs than that session had.
C10_Witness ==
    /\ player # 0
    /\ clients[player].disconnected
    /\ Cardinality(Calls(effects, "disconnect")) = 1
    /\ \E i \in Calls(effects, "new") :
          /\ effects[i].config.codecs # clients[player].codecs
          /\ effects[i].config.baseUrl # clients[player].baseUrl

\* ------------------------------------------------------------------ C11
\* C11: after any connect() failure an `error` status is reported and no
\* session is installed: `player` references no session afterwards, in
\* particular not the previous session that was disconnected at the start
\* of that reconnect.
C11_FailureLeavesNoSession ==
    [][ \A c \in ClientIds :
          ConnectRejected(c) =>
              /\ Cardinality(Sent(effects', "error")) = 1
              /\ player' = 0
      ]_vars

\* ------------------------------------------------------------------ C12
\* The message carries neither a server URL nor a codec list.
C12_NoUrlNoCodecs(m) == m.serverUrl = None /\ m.codecs = None

\* C12: there is no automatic retry after a connect failure: only a
\* message handler starts a connect attempt, and once the latest connect
\* has failed, a message that changes neither serverUrl nor codecs (e.g.
\* only syncDelay or playerName) never starts a connect attempt.
C12_NoAutomaticRetry ==
    [][ /\ ~(OnEmptyMessage \/ \E m \in RetryMessages : OnMessage(m))
             => NoReconnect
        /\ \A m \in RetryMessages :
              ( /\ clients # <<>>
                /\ clients[Len(clients)].conn = "failed"
                /\ C12_NoUrlNoCodecs(m)
                /\ OnMessage(m) ) => NoReconnect
      ]_vars

\* ------------------------------------------------------------------ C13
\* A connect attempt started from idle has just failed: the last handler
\* sent the `error` status, no session is installed and no other connect
\* is outstanding.
C13_FailedFromIdle ==
    /\ player = 0
    /\ NoConnectPending
    /\ Sent(effects, "error") # {}

\* C13: after a connect attempt from idle has failed and `error` was
\* sent, no further status message of any state is sent until a new
\* config message arrives, whatever other event occurs (system volume
\* change, state-change callback, timer): the event that follows the
\* failure, unless it is a message, sends nothing.
C13_SilentAfterIdleFailure ==
    [][ ( /\ C13_FailedFromIdle
          /\ ~(OnEmptyMessage \/ \E m \in TelemetryMessages : OnMessage(m)) )
        => Calls(effects', "send") = {}
      ]_vars

\* ------------------------------------------------------------------ C14
\* Positions of the terminal statuses of a connect attempt: `connected` or
\* `error` carrying a message.
C14_Terminal(fx) ==
    {i \in DOMAIN fx : /\ fx[i].op = "send"
                       /\ fx[i].state \in {"connected", "error"}
                       /\ IsSome(fx[i].message)}

\* Client c leaves the pending state in this step, with the given outcome.
C14_Settles(c, outcome) ==
    clients[c].conn = "pending" /\ clients'[c].conn = outcome

\* C14: every connect attempt emits exactly one `connecting` before the
\* client is constructed and, when connect() settles, exactly one terminal
\* status, `connected` on success or `error` on failure; no `connected`
\* or `error` status with a message is sent without a preceding
\* `connecting` of the same attempt, that is, other than for a client that
\* was constructed after its `connecting` and is settling now.
C14_StatusSequencePerAttempt ==
    [][ /\ Cardinality(Calls(effects', "new")) = Len(clients') - Len(clients)
        /\ Cardinality(Sent(effects', "connecting"))
             = Cardinality(Calls(effects', "new"))
        /\ \A i \in Calls(effects', "new") :
              /\ effects'[i].client = Len(clients')
              /\ clients'[Len(clients')].conn = "pending"
              /\ \E j \in Sent(effects', "connecting") : j < i
              /\ C14_Terminal(effects') = {}
        /\ \A c \in ClientIds :
              /\ C14_Settles(c, "connected") =>
                    /\ Cardinality(C14_Terminal(effects')) = 1
                    /\ Cardinality(Sent(effects', "connected")) = 1
                    /\ Sent(effects', "error") = {}
              /\ C14_Settles(c, "failed") =>
                    /\ Cardinality(C14_Terminal(effects')) = 1
                    /\ Cardinality(Sent(effects', "error")) = 1
                    /\ Sent(effects', "connected") = {}
              /\ clients[c].conn # "pending" => clients'[c].conn = clients[c].conn
        /\ \A i \in C14_Terminal(effects') :
              \E c \in ClientIds :
                  C14_Settles(c, IF effects'[i].state = "connected"
                                 THEN "connected" ELSE "failed")
      ]_vars

\* C14 witness: a reconnect whose connect() failed has just reported its
\* `error`, after an earlier attempt that ended in `connected`.
C14_Witness ==
    /\ Len(clients) = 2
    /\ clients[1].conn = "connected"
    /\ clients[2].conn = "failed"
    /\ Cardinality(C14_Terminal(effects)) = 1
    /\ Sent(effects, "error") # {}

\* ------------------------------------------------------------------ C15
\* Number of calls of tryInitCastReceiver the polling has completed: while
\* the call initCastReceiverWithRetry(attempt) is pending, those of the
\* calls 0 .. attempt-1; once polling gave up in the call `attempt`, those
\* of the calls 0 .. attempt.
C15_ProbesMade == IF phase = "probing" THEN attempt ELSE attempt + 1

\* Every probe that failed and did not give up scheduled the next one
\* 250 ms later, and nothing else.
C15_ProbesSpaced ==
    /\ \A i \in Calls(effects, "setTimeout") : effects[i].ms = 250
    /\ (phase = "probing" /\ attempt > 0)
          => effects = << [op |-> "setTimeout", ms |-> 250] >>

\* C15: when the Cast framework never becomes available,
\* initCastReceiverWithRetry performs exactly 40 probes (calls of
\* tryInitCastReceiver), 250 ms apart, and then stops.
C15_FortyProbes ==
    /\ phase = "exhausted" => C15_ProbesMade = 40
    /\ C15_ProbesSpaced

\* C15 as the code has it: the first probe is followed by 40 retries, so
\* polling stops after exactly 41 probes, 250 ms apart.
C15_FortyOneProbes ==
    /\ phase = "exhausted" => C15_ProbesMade = 41
    /\ C15_ProbesSpaced

\* C15 witness: polling gave up after its last retry.
C15_Witness ==
    /\ phase = "exhausted"
    /\ ~receiverStarted
    /\ attempt = MAX_INIT_RETRIES

\* ------------------------------------------------------------------ C16
\* The step registered the interceptors and listeners or started the
\* receiver context.
C16_Wires(fx) == Calls(fx, "wire") # {} \/ Calls(fx, "start") # {}

\* C16: the receiver is wired exactly once: once receiverStarted is true it
\* stays true, wiring happens only in the call that sets it, and any later
\* call of tryInitCastReceiver returns true without registering anything
\* or starting the context again.
C16_WiredExactlyOnce ==
    [][ /\ receiverStarted => receiverStarted'
        /\ C16_Wires(effects') =>
              /\ ~receiverStarted
              /\ receiverStarted'
              /\ Cardinality(Calls(effects', "wire")) = 1
              /\ Cardinality(Calls(effects', "start")) = 1
        /\ (~receiverStarted /\ receiverStarted') => C16_Wires(effects')
        /\ \A available \in BOOLEAN :
              /\ (receiverStarted /\ CallTryInitCastReceiver(available)) =>
                    /\ tryInitCastReceiver(available).ok
                    /\ effects' = <<>>
                    /\ castContext' = castContext
              /\ (receiverStarted /\ initCastReceiverWithRetry(available)) =>
                    /\ phase' = "wired"
                    /\ effects' = <<>>
      ]_vars

\* C16 witness: tryInitCastReceiver was called again after the receiver
\* was wired, and the polling has stopped on its successful return.
C16_Witness ==
    /\ receiverStarted
    /\ castContext
    /\ phase = "wired"
    /\ effects = <<>>

\* ------------------------------------------------------------------ C17
\* Positions of the terminal status in a list of effects.
C17_TerminalStatus(fx) ==
    {i \in DOMAIN fx : /\ fx[i].op = "setStatus"
                       /\ fx[i].text = "Not running in a Cast receiver context"}

\* What a step of the probe loop may do: polling stops either with the
\* receiver wired or with the attempts exhausted; the terminal status is
\* emitted once, in the step that exhausts them; once polling has stopped it
\* stays stopped, no probe is scheduled and, after exhaustion, the receiver
\* is never wired.
C17_StopsForGood ==
    /\ (phase = "probing" /\ phase' = "wired") =>
          /\ receiverStarted'
          /\ Calls(effects', "setTimeout") = {}
    /\ (phase = "probing" /\ phase' = "exhausted") =>
          /\ attempt = MAX_INIT_RETRIES
          /\ Cardinality(C17_TerminalStatus(effects')) = 1
          /\ Calls(effects', "setTimeout") = {}
    /\ C17_TerminalStatus(effects') # {} =>
          (phase = "probing" /\ phase' = "exhausted")
    /\ phase # "probing" =>
          /\ phase' = phase
          /\ Calls(effects', "setTimeout") = {}
    /\ phase = "exhausted" =>
          /\ ~receiverStarted'
          /\ ~C16_Wires(effects')

\* C17: the probe loop always terminates: either a probe succeeds (polling
\* stops and the receiver is wired) or the attempts are exhausted, and then
\* the terminal status "Not running in a Cast receiver context" is emitted
\* exactly once, no further probe is scheduled and the receiver is never
\* wired afterwards.
C17_ProbeLoopTerminates ==
    /\ <>(phase \in {"wired", "exhausted"})
    /\ [][C17_StopsForGood]_vars

\* C17 witness: the attempts were exhausted and the terminal status is the
\* last thing that happened.
C17_Witness ==
    /\ phase = "exhausted"
    /\ ~receiverStarted
    /\ Cardinality(C17_TerminalStatus(effects)) = 1

\* ------------------------------------------------------------------ C18
\* The message carries a codec list that is not an array or holds a value
\* outside {pcm, flac, opus}.
C18_InvalidCodecs(m) ==
    /\ m.codecs # None
    /\ \/ ~Get(m.codecs).isArray
       \/ \E i \in 1..Len(Get(m.codecs).items) :
             Get(m.codecs).items[i] \notin {"pcm", "flac", "opus"}

\* The message carries a non-empty string in the given field.
C18_Carries(field) == field # None /\ field # Some("")

\* C18: an inbound codec list with any value outside {pcm, flac, opus}, or
\* that is not an array, is rejected as a whole: providedCodecs is left
\* unchanged, while the serverUrl, playerId, playerName and syncDelay of
\* the same message are still applied: the id, name and delay are stored,
\* the delay is pushed to the session if there is one, and a server URL
\* other than the current one is connected to, with those values.
C18_InvalidCodecListDropped ==
    [][ \A m \in MergeMessages :
          (C18_InvalidCodecs(m) /\ OnMessage(m)) =>
              /\ providedCodecs' = providedCodecs
              /\ C18_Carries(m.playerId) => providedPlayerId' = m.playerId
              /\ C18_Carries(m.playerName) => providedPlayerName' = m.playerName
              /\ (m.syncDelay # None /\ Get(m.syncDelay).isNumber) =>
                    /\ providedSyncDelay' = Get(m.syncDelay).val
                    /\ player # 0 =>
                          \E i \in Calls(effects', "setSyncDelay") :
                              /\ effects'[i].client = player
                              /\ effects'[i].delay = Get(m.syncDelay).val
              /\ (C18_Carries(m.serverUrl) /\ m.serverUrl # currentServerUrl) =>
                    /\ OneReconnect
                    /\ NewConfig.baseUrl = Get(m.serverUrl)
                    /\ NewConfig.syncDelay = providedSyncDelay'
                    /\ NewConfig.playerId = getPlayerId(providedPlayerId')
                    /\ NewConfig.codecs =
                         Get(Coalesce(providedCodecs, Some(DEFAULT_CODECS)))
      ]_vars

\* C18 witness: a message with an invalid codec list (the only ones to
\* carry the sync delay 25 and the server "B") has just connected to its
\* server with its id, name and delay, and with the codec list an earlier
\* message had stored.
C18_Witness ==
    /\ providedCodecs = Some(FlacOpus)
    /\ providedSyncDelay = 25
    /\ \E i \in Calls(effects, "new") :
          /\ effects[i].config.baseUrl = "B"
          /\ effects[i].config.playerId = "p1"
          /\ effects[i].config.clientName = "Kitchen"
          /\ effects[i].config.syncDelay = 25
          /\ effects[i].config.codecs = FlacOpus

\* ------------------------------------------------------------------ C19
\* The message carries a valid value in the field.
C19_ValidDelay(m) == m.syncDelay # None /\ Get(m.syncDelay).isNumber

C19_ValidCodecs(m) == m.codecs # None /\ ~C18_InvalidCodecs(m)

\* C19: config merging: for each of playerId, playerName, syncDelay and
\* codecs, a message in which the field is absent (or not valid) leaves
\* the stored value unchanged and one that carries it validly stores its
\* value, and nothing but a message changes a stored value; so after any
\* sequence of messages each stored value equals the value of the last
\* message that carried that field validly.
C19_LastValidValueWins ==
    [][ /\ \A m \in MergeMessages :
              OnMessage(m) =>
                  /\ providedPlayerId' = IF C18_Carries(m.playerId)
                                         THEN m.playerId ELSE providedPlayerId
                  /\ providedPlayerName' = IF C18_Carries(m.playerName)
                                           THEN m.playerName
                                           ELSE providedPlayerName
                  /\ providedSyncDelay' = IF C19_ValidDelay(m)
                                          THEN Get(m.syncDelay).val
                                          ELSE providedSyncDelay
                  /\ providedCodecs' = IF C19_ValidCodecs(m)
                                       THEN Some(Get(m.codecs).items)
                                       ELSE providedCodecs
        /\ \/ UNCHANGED << providedPlayerId, providedPlayerName,
                           providedSyncDelay, providedCodecs >>
           \/ \E m \in MergeMessages : OnMessage(m)
      ]_vars

\* C19 witness: every stored value has been overwritten: the id by a second
\* id, the delay by a second delay, the codec list by a second list, the
\* name is set, and the last message carried none of them.
C19_Witness ==
    /\ providedPlayerId = Some("p2")
    /\ providedPlayerName = Some("Kitchen")
    /\ providedSyncDelay = 50
    /\ providedCodecs = Some(<<"opus">>)
    /\ \E c \in ClientIds : clients[c].syncDelay = 25
    /\ effects = <<>>

\* ------------------------------------------------------------------ C20
\* A teardown that connectToServer requested has not finished.
C20_TeardownUnfinished ==
    \E c \in ClientIds : clients[c].disconnected /\ ~clients[c].closed

\* C20: inbound config messages are reconciled in arrival order (each
\* listener call runs to its end before the next one starts, which every
\* message step has by construction), and the reconciliation of message
\* k+1 never begins while the teardown started for message k, the
\* disconnect of the old session requested by connectToServer, is still
\* unfinished.
C20_NoReconcileDuringTeardown ==
    [][ \A m \in TelemetryMessages :
          OnMessage(m) => ~C20_TeardownUnfinished
      ]_vars

\* ------------------------------------------------------------------ C21
\* C21: a failure of the old session's disconnect() during a reconnect
\* (thrown synchronously or rejected asynchronously) is swallowed and never
\* prevents the replacement client from being constructed and its connect()
\* from being attempted: a listener call that requests the disconnect
\* always goes on to construct one client and to call its connect().
C21_DisconnectFailureSwallowed ==
    [][ \A m \in TelemetryMessages :
          (OnMessageFaulty(m) /\ Calls(effects', "disconnect") # {}) =>
              /\ Calls(effects', "throw") = {}
              /\ OneReconnect
      ]_vars

\* ------------------------------------------------------------------ C22
\* The command the table of the claim gives for an intent, if any.
C22_Table(type, data) ==
    CASE type = "PLAY" -> Some("play")
      [] type = "PAUSE" -> Some("pause")
      [] type = "STOP" -> Some("pause")
      [] type = "QUEUE_UPDATE" /\ data.jump = Some(1) -> Some("next")
      [] type = "QUEUE_UPDATE" /\ data.jump = Some(-1) -> Some("previous")
      [] OTHER -> None

\* The step sent exactly the given optional command, to the session
\* installed as `player`, and nothing when there is none.
C22_SentOnly(cmd) ==
    IF player # 0 /\ cmd # None
    THEN /\ Cardinality(Calls(effects', "sendCommand")) = 1
         /\ \A i \in Calls(effects', "sendCommand") :
               /\ effects'[i].client = player
               /\ effects'[i].command = Get(cmd)
    ELSE Calls(effects', "sendCommand") = {}

\* C22: host remote-control intents map to session commands by a fixed
\* table: PLAY sends play, PAUSE sends pause, STOP sends pause, QUEUE_UPDATE
\* with jump = 1 sends next, with jump = -1 sends previous and with any
\* other jump sends nothing; each intent sends at most one command, to the
\* installed session only, nothing when no session is installed, and the
\* request data is returned unchanged.
C22_IntentTable ==
    [][ \A type \in IntentTypes, data \in RequestData :
          Interceptor(type, data) =>
              /\ C22_SentOnly(C22_Table(type, data))
              /\ Cardinality(Calls(effects', "return")) = 1
              /\ \A i \in Calls(effects', "return") : effects'[i].data = data
      ]_vars

\* C22 witness: a QUEUE_UPDATE with jump = -1 has just sent `previous` to
\* the installed session and returned its request data.
C22_Witness ==
    /\ player # 0
    /\ effects = << SendCommandFx(player, "previous"),
                    ReturnFx([jump |-> Some(-1)]) >>

\* ------------------------------------------------------------------ C23
\* C23: every outgoing non-null host MEDIA_STATUS report has its
\* playerState overwritten to PLAYING when the locally tracked isPlaying
\* flag is true and to PAUSED otherwise, regardless of the value it
\* carried; a null status is passed through unchanged.
C23_MediaStatusOverridden ==
    [][ \A status \in MediaStatuses :
          MediaStatusInterceptor(status) =>
              /\ Cardinality(Calls(effects', "returnStatus")) = 1
              /\ \A i \in Calls(effects', "returnStatus") :
                    IF status = None
                    THEN effects'[i].status = None
                    ELSE /\ effects'[i].status # None
                         /\ Get(effects'[i].status).playerState =
                              (IF isPlaying THEN "PLAYING" ELSE "PAUSED")
      ]_vars

\* C23 witness: while the flag says playing, a report has just been
\* returned with playerState PLAYING.
C23_Witness ==
    /\ isPlaying
    /\ effects = << ReturnStatusFx(Some([playerState |-> "PLAYING"])) >>

\* ------------------------------------------------------------------ C30
\* The command the claim gives for a key, if any.
C30_Table(key) ==
    CASE key = "Enter" \/ key = " " ->
             Some(IF isPlaying THEN "pause" ELSE "play")
      [] key = "ArrowLeft" -> Some("previous")
      [] key = "ArrowRight" -> Some("next")
      [] OTHER -> None

\* C30: local key events map to commands on the installed session: Enter
\* or Space sends pause when the locally tracked isPlaying flag is true and
\* play when it is false, ArrowLeft sends previous, ArrowRight sends next,
\* any other key sends nothing, and nothing is sent when no session is
\* installed.
C30_KeyTable ==
    [][ \A key \in Keys :
          OnKeyDown(key) =>
              /\ C22_SentOnly(C30_Table(key))
              /\ Len(effects') = Cardinality(Calls(effects', "sendCommand"))
      ]_vars

\* C30 witness: while the flag says playing, Enter or Space has just sent
\* `pause` to the installed session.
C30_Witness ==
    /\ isPlaying
    /\ player # 0
    /\ effects = << SendCommandFx(player, "pause") >>

C25_IdentityOnly(m) ==
    /\ m.serverUrl = None
    /\ m.codecs = None
    /\ m.syncDelay = None
    /\ C18_Carries(m.playerId) \/ C18_Carries(m.playerName)

\* C25: a config message that changes only playerId and/or playerName while
\* a session is active causes no reconnect and no call on the live session;
\* the new identifier and name are used by the next connectToServer call
\* when it constructs its client.
C25_IdentityForNextConnectOnly ==
    [][ /\ \A m \in IdentityMessages :
              (Active /\ C25_IdentityOnly(m) /\ OnMessage(m)) =>
                  /\ NoReconnect
                  /\ effects' = <<>>
                  /\ clients' = clients
        /\ \A i \in Calls(effects', "new") :
              /\ effects'[i].config.playerId =
                   (IF C18_Carries(providedPlayerId')
                    THEN Get(providedPlayerId') ELSE "local")
              /\ effects'[i].config.clientName =
                   (IF C18_Carries(providedPlayerName')
                    THEN Get(providedPlayerName') ELSE DEFAULT_CLIENT_NAME)
      ]_vars

\* ------------------------------------------------------------------ C26
\* C26: the playing/stopped state reported for the installed session is
\* derived from that session's own last reported play/pause flag: when a
\* reconnect installs a session in place of a torn-down one, before the new
\* session has reported any state change, the flag its status reports are
\* built from is not the value the previous session reported but the
\* initial one (not playing); and a state-change callback from a torn-down
\* session never changes the flag used for the current session.
C26_FlagBelongsToInstalledSession ==
    [][ /\ \A c \in ClientIds :
              ( /\ player # 0
                /\ clients[player].disconnected
                /\ ConnectResolved(c) ) => ~isPlaying'
        /\ \A c \in ClientIds, playing \in BOOLEAN, metadata \in BOOLEAN :
              ( /\ clients[c].disconnected
                /\ player # 0
                /\ player # c
                /\ onStateChange(c, playing, metadata) )
              => isPlaying' = isPlaying
      ]_vars

\* ------------------------------------------------------------------ C27
\* The status intervals that are scheduled.
C27_StatusIntervals == {t \in intervals : t.kind = "status"}

\* C27: the status cadence runs while a session exists: in every reachable
\* state in which a session is installed as `player` and no connect is in
\* flight, exactly one 1000 ms status interval is scheduled and it reports
\* on that installed session; when no session is installed no status
\* interval is scheduled.
C27_StatusCadence ==
    /\ (player # 0 /\ NoConnectPending) =>
          C27_StatusIntervals = {Interval("status", player)}
    /\ player = 0 => C27_StatusIntervals = {}

\* ------------------------------------------------------------------ C28
\* The progress intervals that are scheduled in a set of intervals.
C28_ProgressIntervals(ivs) == {t \in ivs : t.kind = "progress"}

\* Positions of the setInterval calls for a progress interval.
C28_Started(fx) ==
    {i \in Calls(fx, "setInterval") : fx[i].kind = "progress"}

\* C28: the progress cadence follows metadata: a state change that carries
\* metadata starts the 200 ms progress interval if none is running (never
\* a second one), and a state change without metadata cancels it and
\* resets the displayed progress to (0, 0); so after a state change a
\* progress interval is scheduled if and only if the state change carried
\* metadata, and there is never more than one.
C28_ProgressFollowsMetadata ==
    [][ /\ \A c \in ClientIds, playing \in BOOLEAN :
              /\ onStateChange(c, playing, TRUE) =>
                    /\ Cardinality(C28_ProgressIntervals(intervals')) = 1
                    /\ progressIntervalId' # 0
                    /\ IF C28_ProgressIntervals(intervals) = {}
                       THEN /\ Interval("progress", c) \in intervals'
                            /\ Cardinality(C28_Started(effects')) = 1
                            /\ \A i \in C28_Started(effects') :
                                  effects'[i].ms = 200
                       ELSE /\ intervals' = intervals
                            /\ C28_Started(effects') = {}
              /\ onStateChange(c, playing, FALSE) =>
                    /\ C28_ProgressIntervals(intervals') = {}
                    /\ progressIntervalId' = 0
                    /\ \E i \in Calls(effects', "setProgress") :
                          effects'[i] = SetProgressFx(0, 0)
                    /\ C28_ProgressIntervals(intervals) # {} =>
                          \E i \in Calls(effects', "clearInterval") :
                              effects'[i].kind = "progress"
        /\ Cardinality(C28_ProgressIntervals(intervals')) <= 1
      ]_vars

\* C28 witness: a state change without metadata has just cancelled the
\* running progress interval and reset the displayed progress.
C28_Witness ==
    /\ progressIntervalId = 0
    /\ C28_ProgressIntervals(intervals) = {}
    /\ \E i \in Calls(effects, "clearInterval") : effects[i].kind = "progress"
    /\ \E i \in Calls(effects, "setProgress") : effects[i] = SetProgressFx(0, 0)

\* ------------------------------------------------------------------ C29
\* C29: a progress tick emits position/duration only when the locally
\* tracked isPlaying flag is true and the session reports track progress;
\* otherwise the tick emits nothing and changes no state.
C29_ProgressTick ==
    [][ \A c \in ClientIds, hasProgress \in BOOLEAN :
          updateProgressBar(c, hasProgress) =>
              /\ UNCHANGED << phase, attempt, receiverStarted, castContext,
                              sessionVars >>
              /\ IF isPlaying /\ hasProgress
                 THEN /\ Len(effects') = 1
                      /\ effects'[1].op = "setProgress"
                      /\ effects'[1].client = c
                 ELSE effects' = <<>>
      ]_vars

\* C29 witness: while the flag says playing, a tick of the running progress
\* interval has just emitted the progress of its session.
C29_Witness ==
    /\ isPlaying
    /\ progressIntervalId # 0
    /\ Len(effects) = 1
    /\ effects[1].op = "setProgress"
    /\ effects[1] = [op |-> "setProgress", client |-> progressIntervalId]

\* ------------------------------------------------------------------ C31
\* Every call of one kind in a list of effects comes before every call of
\* another kind.
C31_Before(fx, first, second) ==
    \A i \in first, j \in second : i < j

\* C31: within one connectToServer call the intervals of the existing
\* session are cancelled (each tracked handle is cleared and no interval of
\* that session is left), then the disconnect of the existing session is
\* requested, then `connecting` is sent, then the new client is
\* constructed, then connect() is called on it; the new client is never
\* constructed before the disconnect of the old one was requested.
C31_StepOrder ==
    [][ \A m \in ControlMessages :
          (OnMessage(m) /\ Calls(effects', "new") # {}) =>
              LET fx == effects'
                  cleared == Calls(fx, "clearInterval")
                  torn == Calls(fx, "disconnect")
                  told == Sent(fx, "connecting")
                  made == Calls(fx, "new")
                  tried == Calls(fx, "connect")
              IN  /\ C31_Before(fx, cleared, torn)
                  /\ C31_Before(fx, cleared \cup torn, told)
                  /\ C31_Before(fx, told, made)
                  /\ C31_Before(fx, made, tried)
                  /\ Cardinality(told) = 1
                  /\ Cardinality(made) = 1
                  /\ Cardinality(tried) = 1
                  /\ \A i \in made, j \in tried : fx[i].client = fx[j].client
                  /\ statusIntervalId # 0 =>
                        \E i \in cleared :
                            fx[i] = ClearIntervalFx("status", statusIntervalId)
                  /\ progressIntervalId # 0 =>
                        \E i \in cleared :
                            fx[i] = ClearIntervalFx("progress", progressIntervalId)
                  /\ player # 0 =>
                        /\ \A t \in intervals' : t.owner # player
                        /\ \E i \in torn :
                              /\ fx[i] = DisconnectFx(player)
                              /\ \A j \in made : i < j
                        /\ clients'[player].disconnected
      ]_vars

\* A reconnect has cleared both intervals of the session it replaces.
C31_Witness ==
    /\ Cardinality(Calls(effects, "clearInterval")) = 2
    /\ Calls(effects, "disconnect") # {}
    /\ Sent(effects, "connecting") # {}
    /\ Calls(effects, "new") # {}
    /\ Calls(effects, "connect") # {}

\* ------------------------------------------------------------------ C32
\* The message carries a number as syncDelay and a valid codec list that
\* differs from the codecs of the active session.
C32_CodecChangeWithDelay(m) ==
    /\ Active
    /\ m.syncDelay # None
    /\ Get(m.syncDelay).isNumber
    /\ m.codecs # None
    /\ Get(m.codecs).isArray
    /\ \A i \in 1..Len(Get(m.codecs).items) :
          Get(m.codecs).items[i] \in {"pcm", "flac", "opus"}
    /\ Get(m.codecs).items # clients[player].codecs

\* C32: for a message that carries both a codec change and a syncDelay
\* while a session is active, the session that replaces it is constructed
\* with the syncDelay of the message, whatever was pushed to the old
\* session before.
C32_ReplacementGetsMessageDelay ==
    [][ \A m \in SyncMessages :
          (C32_CodecChangeWithDelay(m) /\ OnMessage(m)) =>
              \A i \in Calls(effects', "new") :
                  /\ effects'[i].config.syncDelay = Get(m.syncDelay).val
                  /\ clients'[effects'[i].client].syncDelay =
                        Get(m.syncDelay).val
      ]_vars

\* A message with a codec change and the delay 50 pushed the delay to the
\* old session and constructed its replacement with it.
C32_Witness ==
    /\ player # 0
    /\ effects # <<>>
    /\ effects[1] = SetSyncDelayFx(player, 50)
    /\ \E i \in Calls(effects, "new") :
          /\ effects[i].config.syncDelay = 50
          /\ effects[i].config.codecs = FlacOpus
    /\ clients[player].codecs = DEFAULT_CODECS

\* ------------------------------------------------------------------ C33
\* The message has no syncDelay, the server URL of the active session or
\* none, and the codecs of the active session or none.
C33_NothingNew(m) ==
    /\ Active
    /\ m.syncDelay = None
    /\ m.serverUrl \in {None, currentServerUrl}
    /\ \/ m.codecs = None
       \/ /\ Get(m.codecs).isArray
          /\ Get(m.codecs).items = clients[player].codecs

\* C33: a config message received while a session is active that has the
\* same serverUrl, the same codecs and no syncDelay leaves `player`,
\* currentServerUrl, currentPlayerCodecs and both interval handles
\* unchanged, sends no status and calls nothing on the session.
C33_IgnoreLeavesSessionUntouched ==
    [][ \A m \in ReconcileMessages :
          (C33_NothingNew(m) /\ OnMessage(m)) =>
              /\ UNCHANGED << player, currentServerUrl, currentPlayerCodecs,
                              statusIntervalId, progressIntervalId,
                              intervals, clients >>
              /\ effects' = <<>>
      ]_vars

\* ------------------------------------------------------------------ C34
\* The message carries, as a number, the sync delay that is stored and in
\* effect on the active session.
C34_SameDelay(m) ==
    /\ Active
    /\ m.syncDelay # None
    /\ Get(m.syncDelay).isNumber
    /\ Get(m.syncDelay).val = providedSyncDelay
    /\ Get(m.syncDelay).val = clients[player].syncDelay

\* C34: a config message whose syncDelay equals the currently stored sync
\* delay is ignored: setSyncDelay is called on the live session only when
\* the received syncDelay differs from the current one.
C34_UpdateOnlyOnChange ==
    [][ \A m \in SyncMessages :
          (C34_SameDelay(m) /\ OnMessage(m)) =>
              Calls(effects', "setSyncDelay") = {}
      ]_vars

\* ------------------------------------------------------------------ C35
\* C35: a status with state `connected` is sent to the sender only when a
\* session has been successfully connected and is installed: the handler
\* that sent one leaves `player` set to a client whose connect() resolved;
\* none is sent while idle or after a failed first connect.
C35_ConnectedOnlyWhenInstalled ==
    Sent(effects, "connected") # {} =>
        /\ player # 0
        /\ clients[player].conn = "connected"

\* ------------------------------------------------------------------ C36
\* C36: in every reachable state where `player` is installed,
\* currentPlayerCodecs equals the codec list that this session's client was
\* constructed with, also when a codecs-only config message arrived while
\* the session's connect() was pending.
C36_RecordedCodecsMatchSession ==
    player # 0 => currentPlayerCodecs = Some(clients[player].codecs)

\* ------------------------------------------------------------------ C37
\* C37: once no connect is pending and a session is installed and live,
\* the sync delay in effect on it (the value it was constructed with or the
\* last one setSyncDelay was called with) equals the last syncDelay
\* received, also when that syncDelay arrived while the session's first
\* connect() was pending.
C37_LastDelayInEffect ==
    (Active /\ NoConnectPending) =>
        clients[player].syncDelay = providedSyncDelay

\* ------------------------------------------------------------------ C38
\* C38: remote-control and key commands are never delivered to a session
\* whose disconnect has already been requested: while a reconnect is in
\* flight, or after a reconnect failed, no handler calls sendCommand on the
\* old disconnected client.
C38_NoCommandToDisconnectedSession ==
    \A i \in Calls(effects, "sendCommand") :
        ~clients[effects[i].client].disconnected

\* ------------------------------------------------------------------ C39
\* The message has no serverUrl and leaves, with a session installed, a
\* stored codec list that differs from the recorded one.
C39_CodecChangeWithoutUrl(m) ==
    /\ m.serverUrl = None
    /\ player # 0
    /\ providedCodecs' # None
    /\ providedCodecs' # currentPlayerCodecs

\* C39: whenever a session is installed as `player`, currentServerUrl and
\* currentPlayerCodecs are both set, the URL to a non-empty string; so a
\* codec-change reconnect for a message without serverUrl is never skipped:
\* it constructs one client for the recorded server URL with the new
\* codecs.
C39_UrlAndCodecsRecorded ==
    /\ [](player # 0 =>
            /\ currentServerUrl # None
            /\ currentServerUrl # Some("")
            /\ currentPlayerCodecs # None)
    /\ [][ \A m \in IdentityMessages :
             (C39_CodecChangeWithoutUrl(m) /\ OnMessage(m)) =>
                 /\ OneReconnect
                 /\ Some(NewConfig.baseUrl) = currentServerUrl
                 /\ Some(NewConfig.codecs) = providedCodecs'
         ]_vars

\* A session with the default codecs is installed and its replacement was
\* constructed with another codec list for the recorded server URL.
C39_Witness ==
    /\ player # 0
    /\ clients[player].codecs = DEFAULT_CODECS
    /\ \E i \in Calls(effects, "new") :
          /\ effects[i].config.codecs = FlacOpus
          /\ Some(effects[i].config.baseUrl) = currentServerUrl

\* ------------------------------------------------------------------ C40
\* C40: every client is constructed with a non-empty codec list whose
\* elements are all in {pcm, flac, opus}; an empty inbound codec list is
\* never used to construct a session.
C40_ClientCodecsNonEmptyAndKnown ==
    \A c \in ClientIds :
        /\ clients[c].codecs # <<>>
        /\ \A i \in 1..Len(clients[c].codecs) :
              clients[c].codecs[i] \in {"pcm", "flac", "opus"}

====
